---- MODULE Spec2Model ----
(***************************************************************************)
(* Model of the guessing-game server in src/src/main.rs: the shared        *)
(* GameState behind one Mutex and one handle_socket task per connection.   *)
(* Every block that holds the lock is one atomic step of the handler that  *)
(* runs it; what a handler does between two lock acquisitions (parsing,    *)
(* composing text, sleeping, pushing into channels) is folded into the     *)
(* step before it.  Message texts are abstracted to their kind.            *)
(***************************************************************************)
EXTENDS Integers, Sequences, FiniteSets, TLC

(* ---------------------------------------------------------------- bounds *)

\* Connections ever accepted by the listener in the main specification.
NConn == 2
\* The secret is drawn from 1..MaxSecret (a sub-range of the code's 1..=100).
MaxSecret == 2
\* Players of the game that SpecLate picks up in its last round but one.
NLate == 3
\* Connections that have passed the admission check of a round with one free
\* place, in SpecLobby.
NWaiting == 2
\* Player ids presented to the registry, and the last round, in SpecRegistry.
NIds == 5
MaxRegistryRound == 2
\* Player ids presented to the registry in SpecBoard.
NBoardIds == 3

(* ------------------------------------------------------ program constants *)

max_rounds == 5
max_players == 4
MinGuess == 1
MaxGuess == 100

Conns == 1 .. NConn
LateConns == 1 .. NLate
LobbyPlayers == 1 .. (max_players - 1)
LobbyWaiting == max_players .. (max_players - 1 + NWaiting)
LobbyConns == LobbyPlayers \cup LobbyWaiting
AllConns == Conns \cup LateConns \cup LobbyConns
Secrets == 1 .. MaxSecret

(* ------------------------------------------------------------ GameState *)

EmptyMap == [x \in {} |-> 0]

Put(m, k, v) == [x \in (DOMAIN m) \cup {k} |-> IF x = k THEN v ELSE m[x]]

Remove(m, k) == [x \in (DOMAIN m) \ {k} |-> m[x]]

\* GameState::new, with the drawn secret s.
GameStateNew(s) ==
  [ current_round      |-> 1,
    secret_number      |-> s,
    players            |-> EmptyMap,
    active_connections |-> EmptyMap,
    round_active       |-> TRUE ]

reset_for_next_round(g, s) ==
  [g EXCEPT !.current_round = g.current_round + 1,
            !.secret_number = s,
            !.round_active  = TRUE]

is_game_over(g) == g.current_round > max_rounds

get_active_player_count(g) == Cardinality(DOMAIN g.active_connections)

can_accept_new_connection(g) ==
  /\ Cardinality(DOMAIN g.active_connections) < max_players
  /\ g.current_round = 1
  /\ ~is_game_over(g)
  /\ g.round_active

\* add_or_reconnect_player letting a join through when the round is exactly full.
add_or_reconnect_player_OffByOne(g, player_id, player_name, sender) ==
  IF player_id \notin DOMAIN g.players
     /\ Cardinality(DOMAIN g.active_connections) > max_players
  THEN [ g |-> g, ok |-> FALSE ]
  ELSE [ g  |-> [g EXCEPT !.players =
                              Put(g.players, player_id,
                                  [name   |-> player_name, sender |-> sender,
                                   wins   |-> IF player_id \in DOMAIN g.players
                                              THEN g.players[player_id].wins ELSE 0,
                                   active |-> TRUE]),
                          !.active_connections =
                              Put(g.active_connections, player_id, player_name)],
         ok |-> TRUE ]

\* add_or_reconnect_player with the capacity check ahead of the registry lookup.
add_or_reconnect_player_CapacityFirst(g, player_id, player_name, sender) ==
  IF Cardinality(DOMAIN g.active_connections) >= max_players
  THEN [ g |-> g, ok |-> FALSE ]
  ELSE [ g  |-> [g EXCEPT !.players =
                              Put(g.players, player_id,
                                  [name   |-> player_name, sender |-> sender,
                                   wins   |-> IF player_id \in DOMAIN g.players
                                              THEN g.players[player_id].wins ELSE 0,
                                   active |-> TRUE]),
                          !.active_connections =
                              Put(g.active_connections, player_id, player_name)],
         ok |-> TRUE ]

\* The result of add_or_reconnect_player: the new state and the returned bool.
add_or_reconnect_player(g, player_id, player_name, sender) ==
  IF player_id \in DOMAIN g.players
  THEN [ g  |-> [g EXCEPT !.players[player_id].sender = sender,
                          !.players[player_id].active = TRUE,
                          !.players[player_id].name   = player_name,
                          !.active_connections =
                              Put(g.active_connections, player_id, player_name)],
         ok |-> TRUE ]
  ELSE IF Cardinality(DOMAIN g.active_connections) >= max_players
  THEN [ g |-> g, ok |-> FALSE ]
  ELSE [ g  |-> [g EXCEPT !.players =
                              Put(g.players, player_id,
                                  [name |-> player_name, sender |-> sender,
                                   wins |-> 0, active |-> TRUE]),
                          !.active_connections =
                              Put(g.active_connections, player_id, player_name)],
         ok |-> TRUE ]

\* remove_active_connection dropping the registry record and keeping the connection.
remove_active_connection_WrongMap(g, player_id) ==
  [g EXCEPT !.players = Remove(g.players, player_id)]

\* remove_active_connection forgetting the player altogether.
remove_active_connection_DropsRecord(g, player_id) ==
  [g EXCEPT !.active_connections = Remove(g.active_connections, player_id),
            !.players = Remove(g.players, player_id)]

remove_active_connection(g, player_id) ==
  [g EXCEPT !.active_connections = Remove(g.active_connections, player_id),
            !.players = [p \in DOMAIN g.players |->
                           IF p = player_id
                           THEN [g.players[p] EXCEPT !.active = FALSE]
                           ELSE g.players[p]]]

\* The orders in which HashMap::values can yield the registry's records: the
\* iteration order of a HashMap is unspecified and does not follow insertion.
ValuesOrders(g) ==
  {o \in [1 .. Cardinality(DOMAIN g.players) -> DOMAIN g.players] :
     \A i, j \in DOMAIN o : o[i] = o[j] => i = j}

\* One step of the stable sort_by(|a, b| b.1.cmp(&a.1)): id goes behind every
\* entry whose win count is not smaller.
RECURSIVE InsertByWins(_, _, _)
InsertByWins(g, sorted, id) ==
  IF sorted = << >> THEN <<id>>
  ELSE IF g.players[Head(sorted)].wins >= g.players[id].wins
       THEN <<Head(sorted)>> \o InsertByWins(g, Tail(sorted), id)
       ELSE <<id>> \o sorted

RECURSIVE SortByWins(_, _)
SortByWins(g, order) ==
  IF order = << >> THEN << >>
  ELSE InsertByWins(g, SortByWins(g, SubSeq(order, 1, Len(order) - 1)),
                    order[Len(order)])

\* get_leaderboard when values() yields the records in the given order.  The
\* code returns (name, wins); id says whose entry it is.
get_leaderboard(g, order) ==
  LET sorted == SortByWins(g, order)
  IN  [i \in 1 .. Len(sorted) |->
         [id   |-> sorted[i],
          name |-> g.players[sorted[i]].name,
          wins |-> g.players[sorted[i]].wins]]

(* ------------------------------------------------------- text and parsing *)

Digits == <<"0", "1", "2", "3", "4", "5", "6", "7", "8", "9">>

IsDigit(ch) == \E i \in 1 .. 10 : Digits[i] = ch

DigitVal(ch) == (CHOOSE i \in 1 .. 10 : Digits[i] = ch) - 1

RECURSIVE TrimStart(_)
TrimStart(s) == IF s # << >> /\ Head(s) = " " THEN TrimStart(Tail(s)) ELSE s

RECURSIVE TrimEnd(_)
TrimEnd(s) ==
  IF s # << >> /\ s[Len(s)] = " " THEN TrimEnd(SubSeq(s, 1, Len(s) - 1)) ELSE s

\* str::trim
Trim(s) == TrimEnd(TrimStart(s))

RECURSIVE DigitsValue(_, _)
DigitsValue(ds, acc) ==
  IF ds = << >> THEN acc ELSE DigitsValue(Tail(ds), acc * 10 + DigitVal(Head(ds)))

\* str::parse::<u32>: an optional '+', then one or more decimal digits; a '-'
\* is no digit of an unsigned type.  The texts of the model are too short to
\* overflow 32 bits.
ParseU32(s) ==
  LET ds == IF Len(s) > 1 /\ Head(s) = "+" THEN Tail(s) ELSE s
  IN  IF ds # << >> /\ \A i \in 1 .. Len(ds) : IsDigit(ds[i])
      THEN [ok |-> TRUE, val |-> DigitsValue(ds, 0)]
      ELSE [ok |-> FALSE, val |-> 0]

\* The messages a client sends after its name.
Texts ==
  { <<"a", "b", "c">>, << >>, <<"-", "5">>, <<"0">>, <<"1">>, <<"2">>,
    <<"+", "2">>, <<" ", "1", " ">>, <<"1", "5", "0">>, <<"1", "a">> }

\* The display name client c sends: names do not steer handle_socket.
ClientName(c) == c

(* ------------------------------------------------------------------ state *)

VARIABLES
  game_state,   \* the GameState behind AppState.game_state's Mutex
  pc,           \* where each handle_socket task stands
  name_set,     \* handle_socket's name_set
  guess,        \* handle_socket's guess, between the two critical sections
  res,          \* handle_socket's (round_won, is_game_over)
  snap,         \* broadcast's active_players, between its two critical sections
  conn_round,   \* current_round as a refused connection's admission check saw it
  ev,           \* the last step: who took it and what it pushed into which channels
  round_wins,   \* wins credited since current_round last changed
  registered    \* the ids of the registry, in the order in which they were inserted

vars ==
  <<game_state, pc, name_set, guess, res, snap, conn_round, ev, round_wins, registered>>

NoRes == [won |-> FALSE, over |-> FALSE]

NoSnap == [taken |-> FALSE, ids |-> {}]

NoText == <<"?">>

NoEv ==
  [op |-> "none", c |-> 0, kind |-> "none", to |-> {}, n |-> 0, text |-> NoText,
   board |-> << >>]

Event(op, c, kind, to, n) ==
  [op |-> op, c |-> c, kind |-> kind, to |-> to, n |-> n, text |-> NoText,
   board |-> << >>]

BcastPcs ==
  {"b_join", "b_result", "b_round_end", "b_round_start", "b_final", "b_close", "b_left"}

\* broadcast_to_others is used for the join and the leave notice.
ToOthers == {"b_join", "b_left"}

BcastKind(p) ==
  CASE p = "b_join"        -> "joined"
    [] p = "b_result"      -> "result"
    [] p = "b_round_end"   -> "round_end"
    [] p = "b_round_start" -> "round_start"
    [] p = "b_final"       -> "final"
    [] p = "b_close"       -> "close"
    [] p = "b_left"        -> "left"

Init ==
  /\ \E s \in Secrets : game_state = GameStateNew(s)
  /\ pc = [c \in AllConns |-> "idle"]
  /\ name_set = [c \in AllConns |-> FALSE]
  /\ guess = [c \in AllConns |-> 0]
  /\ res = [c \in AllConns |-> NoRes]
  /\ snap = [c \in AllConns |-> NoSnap]
  /\ conn_round = [c \in AllConns |-> 0]
  /\ ev = NoEv
  /\ round_wins = 0
  /\ registered = << >>

(* ---------------------------------------------------------- handle_socket *)

\* Lines 173-180: a fresh id (the connection's own number) and the admission
\* check.  Connections are numbered in the order in which they arrive.
Connect(c) ==
  /\ pc[c] = "idle"
  /\ \A d \in AllConns : d < c => pc[d] # "idle"
  /\ IF can_accept_new_connection(game_state)
     THEN /\ pc' = [pc EXCEPT ![c] = "await_name"]
          /\ ev' = Event("connect", c, "welcome", {c}, 0)
          /\ UNCHANGED conn_round
     ELSE /\ pc' = [pc EXCEPT ![c] = "rejecting"]
          /\ ev' = Event("refused", c, "none", {}, 0)
          /\ conn_round' = [conn_round EXCEPT ![c] = game_state.current_round]
  /\ UNCHANGED <<game_state, name_set, guess, res, snap, round_wins, registered>>

\* Lines 183-198: the rejection text, chosen in a critical section of its own.
RejectionKind(g) ==
  IF is_game_over(g) THEN "game_ended"
  ELSE IF g.current_round > 1 THEN "in_progress"
  ELSE IF Cardinality(DOMAIN g.active_connections) >= max_players THEN "round_full"
  ELSE IF ~g.round_active THEN "round_ending"
  ELSE "cannot_join"

\* Lines 182-203: send the text, close, return.
Reject(c) ==
  /\ pc[c] = "rejecting"
  /\ pc' = [pc EXCEPT ![c] = "done"]
  /\ ev' = Event("reject", c, RejectionKind(game_state), {c}, conn_round[c])
  /\ conn_round' = [conn_round EXCEPT ![c] = 0]
  /\ UNCHANGED <<game_state, name_set, guess, res, snap, round_wins, registered>>

\* Lines 229-271, up to the join notice: the first text is the name.  The two
\* read-only critical sections at 246-267 only compose private text.
RegisterName(c, name) ==
  /\ pc[c] = "await_name"
  /\ name_set' = [name_set EXCEPT ![c] = TRUE]
  /\ LET r == add_or_reconnect_player(game_state, c, name, c)
     IN  IF r.ok
         THEN /\ game_state' = r.g
              /\ pc' = [pc EXCEPT ![c] = "b_join"]
              /\ ev' = Event("register", c, "game_info", {c}, 0)
              /\ registered' = IF c \in DOMAIN game_state.players
                                THEN registered ELSE Append(registered, c)
         ELSE /\ game_state' = game_state
              /\ pc' = [pc EXCEPT ![c] = "cleanup"]
              /\ ev' = Event("register_refused", c, "now_full", {c}, 0)
              /\ registered' = registered
  /\ UNCHANGED <<guess, res, snap, conn_round, round_wins>>

\* The range check without its lower bound.
GuessNotice_NoLowerBound(g, text) ==
  LET p == ParseU32(Trim(text))
  IN  IF ~g.round_active THEN "round_over"
      ELSE IF ~p.ok THEN "invalid_input"
      ELSE IF p.val > MaxGuess THEN "out_of_range"
      ELSE "none"

\* Lines 275-290 and 338-340, for one received text.
GuessNotice(g, text) ==
  LET p == ParseU32(Trim(text))
  IN  IF ~g.round_active THEN "round_over"
      ELSE IF ~p.ok THEN "invalid_input"
      ELSE IF p.val < MinGuess \/ p.val > MaxGuess THEN "out_of_range"
      ELSE "none"

\* Lines 225-290: a text after the name; the round_active read is a critical
\* section of its own, the parse and the range check follow without the lock.
ReceiveGuess(c, text) ==
  /\ pc[c] = "loop"
  /\ LET k == GuessNotice(game_state, text)
     IN  IF k = "none"
         THEN /\ guess' = [guess EXCEPT ![c] = ParseU32(Trim(text)).val]
              /\ pc' = [pc EXCEPT ![c] = "resolve"]
              /\ ev' = [Event("guess", c, "none", {}, 0) EXCEPT !.text = text]
         ELSE /\ UNCHANGED <<guess, pc>>
              /\ ev' = [Event("guess", c, k, {c}, 0) EXCEPT !.text = text]
  /\ UNCHANGED <<game_state, name_set, res, snap, conn_round, round_wins, registered>>

\* Lines 297-308: the public result of a guess against the secret.
Response(g, n) ==
  IF n < g.secret_number THEN "too_low"
  ELSE IF n > g.secret_number THEN "too_high"
  ELSE "wins_round"

\* Lines 292-313, the state after the critical section.
ResolveState(g, player_id, n) ==
  IF n = g.secret_number
  THEN [g EXCEPT !.round_active = FALSE,
                 !.players = [p \in DOMAIN g.players |->
                                IF p = player_id
                                THEN [g.players[p] EXCEPT !.wins = @ + 1]
                                ELSE g.players[p]]]
  ELSE g

\* Lines 292-313.
Resolve(c) ==
  /\ pc[c] = "resolve"
  /\ game_state' = ResolveState(game_state, c, guess[c])
  /\ res' = [res EXCEPT ![c] =
               [won  |-> guess[c] = game_state.secret_number,
                over |-> game_state.current_round >= max_rounds]]
  /\ round_wins' = IF guess[c] = game_state.secret_number
                      /\ c \in DOMAIN game_state.players
                   THEN round_wins + 1 ELSE round_wins
  /\ ev' = Event("resolve", c, Response(game_state, guess[c]), {}, guess[c])
  /\ guess' = [guess EXCEPT ![c] = 0]
  /\ pc' = [pc EXCEPT ![c] = "b_result"]
  /\ UNCHANGED <<name_set, snap, conn_round, registered>>

\* Lines 358-361 (376-379, 444-447, 512-515): the keys of active_connections.
BroadcastSnapshot(c) ==
  /\ pc[c] \in BcastPcs
  /\ ~snap[c].taken
  /\ snap' = [snap EXCEPT ![c] =
                [taken |-> TRUE, ids |-> DOMAIN game_state.active_connections]]
  /\ ev' = Event("snapshot", c, "none", {}, 0)
  /\ UNCHANGED <<game_state, pc, name_set, guess, res, conn_round, round_wins, registered>>

\* Lines 363-372 (381-392, 449-458, 517-526): the channels the text is pushed into.
Recipients(g, ids, excluded) ==
  {g.players[p].sender : p \in (ids \cap DOMAIN g.players) \ excluded}

\* Where a handler goes after a broadcast (lines 270-271, 318-337, 411-417,
\* 474-477, 506-512, 526-534, 350-354).
AfterBroadcast(p, r) ==
  CASE p = "b_join"        -> "loop"
    [] p = "b_result"      -> IF r.won
                              THEN (IF r.over THEN "b_final" ELSE "b_round_end")
                              ELSE "loop"
    [] p = "b_round_end"   -> "next_round"
    [] p = "b_round_start" -> "loop"
    [] p = "b_final"       -> "b_close"
    [] p = "b_close"       -> "eg_reset"
    [] p = "b_left"        -> "done"

BroadcastSend(c) ==
  /\ pc[c] \in BcastPcs
  /\ snap[c].taken
  /\ ev' = Event("broadcast", c, BcastKind(pc[c]),
                 Recipients(game_state, snap[c].ids,
                            IF pc[c] \in ToOthers THEN {c} ELSE {}), 0)
  /\ snap' = [snap EXCEPT ![c] = NoSnap]
  /\ res' = [res EXCEPT ![c] = NoRes]
  /\ pc' = [pc EXCEPT ![c] = AfterBroadcast(pc[c], res[c])]
  /\ UNCHANGED <<game_state, name_set, guess, conn_round, round_wins, registered>>

\* Lines 461-470: start_next_round's reset; the read of current_round that
\* follows only composes the announcement.
StartNextRound(c) ==
  /\ pc[c] = "next_round"
  /\ \E s \in Secrets : game_state' = reset_for_next_round(game_state, s)
  /\ round_wins' = 0
  /\ pc' = [pc EXCEPT ![c] = "b_round_start"]
  /\ ev' = Event("next_round", c, "none", {}, 0)
  /\ UNCHANGED <<name_set, guess, res, snap, conn_round, registered>>

\* Lines 530-534, then the break at 334-336.
EndGameReset(c) ==
  /\ pc[c] = "eg_reset"
  /\ \E s \in Secrets : game_state' = GameStateNew(s)
  /\ round_wins' = 0
  /\ pc' = [pc EXCEPT ![c] = "cleanup"]
  /\ ev' = Event("game_reset", c, "none", {}, 0)
  /\ registered' = << >>
  /\ UNCHANGED <<name_set, guess, res, snap, conn_round>>

\* Line 225: the client's stream ends while the handler waits for a message.
Disconnect(c) ==
  /\ pc[c] \in {"await_name", "loop"}
  /\ pc' = [pc EXCEPT ![c] = "cleanup"]
  /\ ev' = Event("disconnect", c, "none", {}, 0)
  /\ UNCHANGED <<game_state, name_set, guess, res, snap, conn_round, round_wins, registered>>

\* Lines 344-354: the cleanup after the loop.
Cleanup(c) ==
  /\ pc[c] = "cleanup"
  /\ game_state' = remove_active_connection(game_state, c)
  /\ pc' = [pc EXCEPT ![c] = IF name_set[c] THEN "b_left" ELSE "done"]
  /\ ev' = Event("cleanup", c, "none", {}, 0)
  /\ UNCHANGED <<name_set, guess, res, snap, conn_round, round_wins, registered>>

Next ==
  \E c \in Conns :
    \/ Connect(c)
    \/ Reject(c)
    \/ RegisterName(c, ClientName(c))
    \/ \E text \in Texts : ReceiveGuess(c, text)
    \/ Resolve(c)
    \/ BroadcastSnapshot(c)
    \/ BroadcastSend(c)
    \/ StartNextRound(c)
    \/ EndGameReset(c)
    \/ Disconnect(c)
    \/ Cleanup(c)

Spec == Init /\ [][Next]_vars

(* A game in its last round but one: every player of LateConns joined in
   round 1, rounds 1 .. max_rounds - 2 were won one after the other by
   players 1, 2, ..., and every handler waits for the next guess. *)
InitLate ==
  /\ \E s \in Secrets :
       game_state =
         [ current_round      |-> max_rounds - 1,
           secret_number      |-> s,
           players            |-> [p \in LateConns |->
                                     [name   |-> ClientName(p),
                                      sender |-> p,
                                      wins   |-> IF p <= max_rounds - 2 THEN 1 ELSE 0,
                                      active |-> TRUE]],
           active_connections |-> [p \in LateConns |-> ClientName(p)],
           round_active       |-> TRUE ]
  /\ pc = [c \in AllConns |-> IF c \in LateConns THEN "loop" ELSE "idle"]
  /\ name_set = [c \in AllConns |-> c \in LateConns]
  /\ guess = [c \in AllConns |-> 0]
  /\ res = [c \in AllConns |-> NoRes]
  /\ snap = [c \in AllConns |-> NoSnap]
  /\ conn_round = [c \in AllConns |-> 0]
  /\ ev = NoEv
  /\ round_wins = 0
  /\ registered = [i \in 1 .. NLate |-> i]

NextLate ==
  \E c \in LateConns :
    \/ \E text \in Texts : ReceiveGuess(c, text)
    \/ Resolve(c)
    \/ BroadcastSnapshot(c)
    \/ BroadcastSend(c)
    \/ StartNextRound(c)
    \/ EndGameReset(c)
    \/ Disconnect(c)
    \/ Cleanup(c)

SpecLate == InitLate /\ [][NextLate]_vars


(* A first round in which nobody guesses.  max_players - 1 players have
   joined and wait for a message; the connections of LobbyWaiting have all
   passed the admission check (one place was free) and none of them has sent
   its name yet. *)
InitLobby ==
  /\ \E s \in Secrets :
       game_state =
         [GameStateNew(s) EXCEPT
            !.players = [p \in LobbyPlayers |->
                           [name |-> ClientName(p), sender |-> p,
                            wins |-> 0, active |-> TRUE]],
            !.active_connections = [p \in LobbyPlayers |-> ClientName(p)]]
  /\ pc = [c \in AllConns |->
            IF c \in LobbyPlayers THEN "loop"
            ELSE IF c \in LobbyWaiting THEN "await_name" ELSE "idle"]
  /\ name_set = [c \in AllConns |-> c \in LobbyPlayers]
  /\ guess = [c \in AllConns |-> 0]
  /\ res = [c \in AllConns |-> NoRes]
  /\ snap = [c \in AllConns |-> NoSnap]
  /\ conn_round = [c \in AllConns |-> 0]
  /\ ev = NoEv
  /\ round_wins = 0
  /\ registered = [i \in 1 .. (max_players - 1) |-> i]

NextLobby ==
  \E c \in LobbyConns :
    \/ RegisterName(c, ClientName(c))
    \/ BroadcastSnapshot(c)
    \/ BroadcastSend(c)
    \/ Disconnect(c)
    \/ Cleanup(c)

SpecLobby == InitLobby /\ [][NextLobby]_vars

(* The steps a handler takes by itself once a message has arrived: the tokio
   runtime keeps scheduling a task that can run, and the sleeps end.
   Messages and disconnects are the clients' and come when they come. *)
HandlerStep(c) ==
  \/ Reject(c)
  \/ Resolve(c)
  \/ BroadcastSnapshot(c)
  \/ BroadcastSend(c)
  \/ StartNextRound(c)
  \/ EndGameReset(c)
  \/ Cleanup(c)

(* A game in its last round: the players of LateConns joined in round 1,
   player 1 won every round so far, every handler waits for the next guess,
   and the clients send well-formed guesses only. *)
GuessTexts == { <<"1">>, <<"2">> }

InitFinal ==
  /\ \E s \in Secrets :
       game_state =
         [ current_round      |-> max_rounds,
           secret_number      |-> s,
           players            |-> [p \in LateConns |->
                                     [name   |-> ClientName(p),
                                      sender |-> p,
                                      wins   |-> IF p = 1 THEN max_rounds - 1 ELSE 0,
                                      active |-> TRUE]],
           active_connections |-> [p \in LateConns |-> ClientName(p)],
           round_active       |-> TRUE ]
  /\ pc = [c \in AllConns |-> IF c \in LateConns THEN "loop" ELSE "idle"]
  /\ name_set = [c \in AllConns |-> c \in LateConns]
  /\ guess = [c \in AllConns |-> 0]
  /\ res = [c \in AllConns |-> NoRes]
  /\ snap = [c \in AllConns |-> NoSnap]
  /\ conn_round = [c \in AllConns |-> 0]
  /\ ev = NoEv
  /\ round_wins = 0
  /\ registered = [i \in 1 .. NLate |-> i]

NextFinal ==
  \E c \in LateConns :
    \/ \E text \in GuessTexts : ReceiveGuess(c, text)
    \/ Resolve(c)
    \/ BroadcastSnapshot(c)
    \/ BroadcastSend(c)
    \/ StartNextRound(c)
    \/ EndGameReset(c)
    \/ Disconnect(c)
    \/ Cleanup(c)

SpecFinalFair ==
  InitFinal /\ [][NextFinal]_vars /\ \A c \in LateConns : WF_vars(HandlerStep(c))

(* The registry operations of GameState applied directly, with ids that may
   already be registered: handle_socket itself never presents a known id. *)
Ids == 1 .. NIds

\* A display name: the client's own, or another one on a later connection.
NamesOf(id) == {ClientName(id), 0}

\* add_or_reconnect_player(id, name, sender) under the lock (lines 235-238).
\* Ids are fresh random values: they are numbered in the order in which they
\* first enter the registry.
RegistryAdd(id, name) ==
  /\ \A d \in 1 .. (id - 1) : d \in DOMAIN game_state.players
  /\ LET r == add_or_reconnect_player(game_state, id, name, id)
     IN  /\ game_state' = r.g
         /\ ev' = Event("add", id, IF r.ok THEN "admitted" ELSE "now_full", {}, name)
         /\ registered' = IF r.ok /\ id \notin DOMAIN game_state.players
                           THEN Append(registered, id) ELSE registered
  /\ UNCHANGED <<pc, name_set, guess, res, snap, conn_round, round_wins>>

\* remove_active_connection(id) under the lock (lines 345-348).
RegistryRemove(id) ==
  /\ id \in DOMAIN game_state.active_connections
  /\ game_state' = remove_active_connection(game_state, id)
  /\ ev' = Event("remove", id, "none", {}, 0)
  /\ UNCHANGED <<pc, name_set, guess, res, snap, conn_round, round_wins, registered>>

\* A correct guess of a connected player (lines 292-313).
RegistryWin(id) ==
  /\ id \in DOMAIN game_state.active_connections
  /\ game_state.round_active
  /\ game_state' = ResolveState(game_state, id, game_state.secret_number)
  /\ ev' = Event("win", id, "wins_round", {}, 0)
  /\ UNCHANGED <<pc, name_set, guess, res, snap, conn_round, round_wins, registered>>

\* reset_for_next_round under the lock (lines 462-465), after a won round.
RegistryNextRound ==
  /\ ~game_state.round_active
  /\ game_state.current_round < MaxRegistryRound
  /\ \E s \in Secrets : game_state' = reset_for_next_round(game_state, s)
  /\ ev' = Event("next_round", 0, "none", {}, 0)
  /\ UNCHANGED <<pc, name_set, guess, res, snap, conn_round, round_wins, registered>>

NextRegistry ==
  \/ \E id \in Ids : \E name \in NamesOf(id) : RegistryAdd(id, name)
  \/ \E id \in Ids : RegistryRemove(id)
  \/ \E id \in Ids : RegistryWin(id)
  \/ RegistryNextRound

SpecRegistry == Init /\ [][NextRegistry]_vars

(* The registry operations again, with few ids, and get_leaderboard called
   on every registry they build. *)
BoardIds == 1 .. NBoardIds

\* get_leaderboard under the lock (lines 396-399, 480-483, 256-258).
RegistryLeaderboard ==
  /\ \E order \in ValuesOrders(game_state) :
       ev' = [Event("leaderboard", 0, "none", {}, 0)
                EXCEPT !.board = get_leaderboard(game_state, order)]
  /\ UNCHANGED <<game_state, pc, name_set, guess, res, snap, conn_round, round_wins,
                 registered>>

NextBoard ==
  \/ \E id \in BoardIds : RegistryAdd(id, ClientName(id))
  \/ \E id \in BoardIds : RegistryRemove(id)
  \/ \E id \in BoardIds : RegistryWin(id)
  \/ RegistryNextRound
  \/ RegistryLeaderboard

SpecBoard == Init /\ [][NextBoard]_vars

(* ------------------------------------------------------------------ claims *)

ConnectedIds == DOMAIN game_state.active_connections

RegistryIds == DOMAIN game_state.players

(* C1: within one game, at most one correct guess is credited while
   current_round keeps its value, in every interleaving of handlers. *)
C1_OneWinPerRound == round_wins <= 1

(* C2: between two game resets current_round never decreases and is never
   greater than max_rounds + 1. *)
C2_RoundMonotoneAndCapped ==
  [][ /\ game_state'.current_round <= max_rounds + 1
      /\ ev'.op # "game_reset" => game_state'.current_round >= game_state.current_round ]_vars

(* C3: a new Player record is created only in a state where current_round is
   1, round_active is true and the connected count is below max_players. *)
C3_NewPlayerOnlyInOpenRoundOne ==
  [][ (DOMAIN game_state'.players) \ RegistryIds # {}
        => /\ game_state.current_round = 1
           /\ game_state.round_active
           /\ Cardinality(ConnectedIds) < max_players ]_vars

(* C4: with a fresh id per connection the connected set never holds more
   than max_players ids, and a join refused for capacity changes neither the
   registry nor the connected set. *)
C4_ConnectedWithinCapacity ==
  [][ /\ Cardinality(DOMAIN game_state'.active_connections) <= max_players
      /\ ev'.op = "register_refused"
           => /\ game_state' = game_state
              /\ Cardinality(ConnectedIds) = max_players ]_vars

\* More connections than max_players passed the admission check, and one of
\* them was refused when it sent its name to a full round.
C4_Witness ==
  /\ ev.op = "register_refused"
  /\ Cardinality(ConnectedIds) = max_players
  /\ Cardinality({c \in LobbyConns : name_set[c]}) > max_players
  /\ ev.c \notin RegistryIds

(* C5: in every reachable state the connected player ids are a subset of the
   keys of the player registry. *)
C5_ConnectedSubsetOfRegistry == ConnectedIds \subseteq RegistryIds

\* A handler of a game that was reset cleans up while the next game has a
\* connected player.
C5_Witness ==
  /\ ev.op = "cleanup"
  /\ name_set[ev.c]
  /\ ev.c \notin RegistryIds
  /\ ConnectedIds # {}

(* C6: presenting an id of the registry always re-attaches it, whatever the
   connected count and current_round, while the game has not ended: the id
   is in the connected set, its flag is true, its name is the one presented
   and its win count is what it was. *)
C6_ReconnectAlwaysAttaches ==
  [][ (ev'.op = "add" /\ ev'.c \in RegistryIds /\ ~is_game_over(game_state))
        => /\ ev'.kind = "admitted"
           /\ ev'.c \in DOMAIN game_state'.active_connections
           /\ game_state'.active_connections[ev'.c] = ev'.n
           /\ game_state'.players[ev'.c].active
           /\ game_state'.players[ev'.c].name = ev'.n
           /\ game_state'.players[ev'.c].wins = game_state.players[ev'.c].wins
           /\ DOMAIN game_state'.players = RegistryIds ]_vars

\* A known player with a win came back under another name, after round 1, to
\* a connected set that was already full.
C6_Witness ==
  /\ ev.op = "add"
  /\ ev.kind = "admitted"
  /\ Cardinality(ConnectedIds) > max_players
  /\ game_state.current_round > 1
  /\ game_state.players[ev.c].wins > 0
  /\ game_state.players[ev.c].name # ClientName(ev.c)

(* C7: a connection that connects in a state with current_round > 1 is
   rejected, is never added to the registry or the connected set, and the
   rejection text it receives is the "game is already in progress" message. *)
C7_LateConnectionToldInProgress ==
  (ev.op = "reject" /\ ev.n > 1)
    => /\ ev.kind = "in_progress"
       /\ ev.c \notin RegistryIds
       /\ ev.c \notin ConnectedIds

(* C8 (its safety part): when end_game pushes the close, every connected
   player's channel gets it, and the reset that follows leaves a fresh state
   (round 1, round active, empty registry and connected set) that admits a
   new connection. *)
C8_CloseReachesEveryConnected ==
  [][ /\ (ev'.op = "broadcast" /\ ev'.kind = "close")
           => \A p \in ConnectedIds : game_state.players[p].sender \in ev'.to
      /\ ev'.op = "game_reset"
           => /\ game_state'.current_round = 1
              /\ game_state'.round_active
              /\ game_state'.players = EmptyMap
              /\ game_state'.active_connections = EmptyMap
              /\ can_accept_new_connection(game_state') ]_vars

(* C9: a guess is never compared to the secret in a state where round_active
   is false. *)
C9_ResolveOnlyWhileRoundActive ==
  [][ ev'.op = "resolve" => game_state.round_active ]_vars

\* A decimal integer as a reader sees it: an optional sign, then digits.
IsIntegerText(s) ==
  LET ds == IF s # << >> /\ Head(s) \in {"+", "-"} THEN Tail(s) ELSE s
  IN  ds # << >> /\ \A i \in 1 .. Len(ds) : IsDigit(ds[i])

IntegerValue(s) ==
  IF Head(s) = "-" THEN 0 - DigitsValue(Tail(s), 0)
  ELSE IF Head(s) = "+" THEN DigitsValue(Tail(s), 0)
  ELSE DigitsValue(s, 0)

\* Not an integer, or an integer outside [1,100].
Malformed(text) ==
  LET s == Trim(text)
  IN  ~IsIntegerText(s) \/ IntegerValue(s) < 1 \/ IntegerValue(s) > 100

MalformedGuessStep == ev'.op = "guess" /\ game_state.round_active /\ Malformed(ev'.text)

PrivateNoticeOnly ==
  /\ ev'.to = {ev'.c}
  /\ game_state' = game_state
  /\ pc'[ev'.c] = "loop"
  /\ UNCHANGED <<pc, name_set, guess, res, snap, round_wins>>

(* C10, as claimed: a malformed guess received while the round is active
   gets only a private notice, invalid-input for a non-integer and
   out-of-range for every integer outside [1,100] (zero, negative, above
   100), and leaves the Session State and the connection as they were. *)
C10_NoticeByIntegerClass ==
  [][ MalformedGuessStep
        => /\ ev'.kind = IF IsIntegerText(Trim(ev'.text))
                         THEN "out_of_range" ELSE "invalid_input"
           /\ PrivateNoticeOnly ]_vars

(* C10, amended: the notice is out-of-range for zero and for integers above
   100, and invalid-input for everything that is no unsigned decimal
   integer, a negative integer included. *)
C10_NoticeByUnsignedClass ==
  [][ MalformedGuessStep
        => /\ ev'.kind = IF IsIntegerText(Trim(ev'.text)) /\ Head(Trim(ev'.text)) # "-"
                         THEN "out_of_range" ELSE "invalid_input"
           /\ PrivateNoticeOnly ]_vars

\* A negative integer was answered while the round was active.
C10_Witness ==
  /\ ev.op = "guess"
  /\ ev.text = <<"-", "5">>
  /\ ev.kind = "invalid_input"
  /\ game_state.round_active

(* C11: the public result of a resolved guess is "too low" iff it is below
   the secret, "too high" iff above and "wins round" iff equal, and when the
   result is broadcast it is pushed into the channel of every player that is
   in the connected set while the broadcast runs, the guesser's included. *)
C11_ResultReachesConnectedAndGuesser ==
  [][ /\ ev'.op = "resolve"
           => /\ (ev'.kind = "too_low") = (ev'.n < game_state.secret_number)
              /\ (ev'.kind = "too_high") = (ev'.n > game_state.secret_number)
              /\ (ev'.kind = "wins_round") = (ev'.n = game_state.secret_number)
      /\ (ev'.op = "broadcast" /\ ev'.kind = "result")
           => /\ ev'.c \in ev'.to
              /\ \A p \in snap[ev'.c].ids \cap ConnectedIds :
                   game_state.players[p].sender \in ev'.to ]_vars

\* Where id stands in the order of registration.
RegistrationRank(id) == CHOOSE i \in 1 .. Len(registered) : registered[i] = id

(* C12: every leaderboard lists the players of the registry in non-increasing
   order of win count, and two players with equal win counts stand in the
   order in which they were first registered. *)
C12_LeaderboardSortedTiesByRegistration ==
  ev.op = "leaderboard"
    => /\ Len(ev.board) = Cardinality(RegistryIds)
       /\ {ev.board[i].id : i \in DOMAIN ev.board} = RegistryIds
       /\ \A i, j \in DOMAIN ev.board :
            i < j => /\ ev.board[i].wins >= ev.board[j].wins
                     /\ ev.board[i].wins = ev.board[j].wins
                          => RegistrationRank(ev.board[i].id)
                               < RegistrationRank(ev.board[j].id)

(* C13: resolving a correct guess is one step in which round_active goes from
   true to false, the guesser's win count grows by exactly one, no other
   player's win count changes, and secret_number and current_round stay. *)
C13_CorrectGuessStep ==
  [][ (ev'.op = "resolve" /\ ev'.kind = "wins_round")
        => /\ game_state.round_active
           /\ ~game_state'.round_active
           /\ ev'.c \in RegistryIds
           /\ DOMAIN game_state'.players = RegistryIds
           /\ \A p \in RegistryIds :
                game_state'.players[p].wins =
                  game_state.players[p].wins + (IF p = ev'.c THEN 1 ELSE 0)
           /\ game_state'.secret_number = game_state.secret_number
           /\ game_state'.current_round = game_state.current_round ]_vars

(* C14: reset_for_next_round runs only in a state where round_active is
   false, and it advances current_round by exactly one: a round that still
   accepts guesses is never replaced by a later round. *)
C14_NextRoundOnlyAfterWonRound ==
  [][ ev'.op = "next_round"
        => /\ ~game_state.round_active
           /\ game_state'.current_round = game_state.current_round + 1 ]_vars

\* Round n has been won and the next round has not begun.
RoundWon(n) == game_state.current_round = n /\ ~game_state.round_active

\* Round n is accepting guesses.
RoundOpen(n) ==
  /\ game_state.current_round = n
  /\ game_state.round_active
  /\ game_state.secret_number \in MinGuess .. MaxGuess

\* No step but p's own cleanup takes a connected player p of a game that is
\* in a round below max_rounds out of the connected set or the registry.
PlayersStayAttached ==
  \A p \in ConnectedIds :
    (game_state.current_round < max_rounds /\ ~(ev'.op = "cleanup" /\ ev'.c = p))
      => /\ p \in DOMAIN game_state'.active_connections
         /\ p \in DOMAIN game_state'.players

(* C15: whenever a round n < max_rounds is won, the game eventually stands
   in round n + 1 with round_active true and a secret within 1..=100, and
   the players connected in the meantime stay in the connected set and the
   registry unless they disconnect themselves. *)
C15_WonRoundLeadsToNextRound ==
  /\ \A n \in 1 .. (max_rounds - 1) : RoundWon(n) ~> RoundOpen(n + 1)
  /\ [][PlayersStayAttached]_vars

\* The four causes of a rejection, in the order in which they are named.
RejectionCauses == <<"game_ended", "in_progress", "round_full", "round_ending">>

CauseApplies(cause) ==
  CASE cause = "game_ended"   -> game_state.current_round > max_rounds
    [] cause = "in_progress"  -> game_state.current_round > 1
    [] cause = "round_full"   -> Cardinality(ConnectedIds) >= max_players
    [] cause = "round_ending" -> ~game_state.round_active

(* C16: a connection is accepted exactly when the connected count is below
   max_players, current_round is 1 and at most max_rounds, and round_active
   is true; a rejected connection is sent the first cause that applies, in
   the order game over, game in progress, capacity reached, round resolving,
   and is closed; neither decision changes the GameState. *)
C16_AdmissionDecisionAndReason ==
  [][ /\ ev'.op \in {"connect", "refused"}
           => /\ (ev'.op = "connect")
                   = (/\ Cardinality(ConnectedIds) < max_players
                      /\ game_state.current_round = 1
                      /\ game_state.current_round <= max_rounds
                      /\ game_state.round_active)
              /\ game_state' = game_state
      /\ ev'.op = "reject"
           => /\ \E i \in 1 .. 4 :
                   /\ ev'.kind = RejectionCauses[i]
                   /\ CauseApplies(RejectionCauses[i])
                   /\ \A j \in 1 .. (i - 1) : ~CauseApplies(RejectionCauses[j])
              /\ game_state' = game_state
              /\ pc'[ev'.c] = "done" ]_vars

(* C17: the cleanup of a connection takes its id out of the connected set
   and sets its record's connectivity flag to false; the record's name, wins
   and channel, every other record and connection, current_round,
   secret_number and round_active are as before. *)
C17_DisconnectFrame ==
  [][ ev'.op = "cleanup"
        => /\ DOMAIN game_state'.active_connections = ConnectedIds \ {ev'.c}
           /\ \A p \in ConnectedIds \ {ev'.c} :
                game_state'.active_connections[p] = game_state.active_connections[p]
           /\ DOMAIN game_state'.players = RegistryIds
           /\ \A p \in RegistryIds :
                game_state'.players[p] =
                  IF p = ev'.c THEN [game_state.players[p] EXCEPT !.active = FALSE]
                  ELSE game_state.players[p]
           /\ game_state'.current_round = game_state.current_round
           /\ game_state'.secret_number = game_state.secret_number
           /\ game_state'.round_active = game_state.round_active ]_vars

\* A player with a win has just been cleaned up while a round won by someone
\* was being resolved and another player stayed connected.
C17_Witness ==
  /\ ev.op = "cleanup"
  /\ ev.c \in RegistryIds
  /\ ~game_state.players[ev.c].active
  /\ game_state.players[ev.c].wins > 0
  /\ ev.c \notin ConnectedIds
  /\ ConnectedIds # {}
  /\ ~game_state.round_active
  /\ game_state.current_round > 1

\* The final round has been won and the game has not been replaced yet.
FinalRoundWon == game_state.current_round >= max_rounds /\ ~game_state.round_active

(* C18: end_game pushes the game-over text and the close, and replaces the
   GameState by a fresh one, only in a state where the final round has been
   won: a game that still accepts guesses is never wiped. *)
C18_ResetOnlyAfterFinalRound ==
  [][ (\/ ev'.op = "game_reset"
       \/ ev'.op = "broadcast" /\ ev'.kind \in {"final", "close"})
        => FinalRoundWon ]_vars

(* C19: a guess is resolved only for a handler whose id is in the registry
   and in the connected set at that moment, and every step that takes
   round_active from true to false credits a win to a registered player. *)
C19_ResolverIsRegisteredPlayer ==
  [][ /\ ev'.op = "resolve"
           => ev'.c \in RegistryIds /\ ev'.c \in ConnectedIds
      /\ (game_state.round_active /\ ~game_state'.round_active)
           => \E p \in RegistryIds :
                /\ p \in DOMAIN game_state'.players
                /\ game_state'.players[p].wins = game_state.players[p].wins + 1 ]_vars

(* C20: a "left the game" notice reaches other players only for a player
   that is in the registry of the game, that is, one that was added to it;
   a connection refused at the admission check or at its name registration
   causes no message to any other player. *)
C20_LeaveNoticeOnlyAfterJoin ==
  [][ /\ (ev'.op = "broadcast" /\ ev'.kind = "left" /\ ev'.to # {})
           => ev'.c \in RegistryIds
      /\ ev'.op \in {"reject", "register_refused"} => ev'.to \subseteq {ev'.c} ]_vars

\* No handler is running: every connection is yet to come or has returned.
NoHandlerLive == \A c \in AllConns : pc[c] \in {"idle", "done"}

(* C21: in every state in which the connected set is empty and no handler
   is live or in the middle of a transition, a new connection passes the
   admission check: the game stands in round 1, accepting guesses, with a
   free place. *)
C21_NeverLockedOut ==
  (ConnectedIds = {} /\ NoHandlerLive)
    => /\ can_accept_new_connection(game_state)
       /\ game_state.current_round = 1
       /\ game_state.round_active

====
